---- MODULE Spec2Model ----
(***************************************************************************)
(* State-machine model of robot_state_publisher::RobotStatePublisher       *)
(* (src/src/robot_state_publisher.cpp): the segment tables built by        *)
(* addChildren, the mimic map, the hot swap of the robot description and   *)
(* the try-lock publish path.                                              *)
(***************************************************************************)
EXTENDS Integers, Sequences, FiniteSets, TLC

\* ------------------------------------------------------------------ bounds
\* joint positions supplied in a batch range over 1..MaxPos
MaxPos == 2

\* frame names tried for stripSlash have at most MaxLen characters
MaxLen == 3

\* ------------------------------------------------------------- data domain
\* Joint names, listed in std::map key order (std::less<std::string>).
JointOrder == <<"a", "b", "c">>

Joints == {JointOrder[i] : i \in 1..Len(JointOrder)}

\* The keys of a std::map restricted to S, in iteration order.
SortedKeys(S) == SelectSeq(JointOrder, LAMBDA j : j \in S)

\* A thread id that is no thread: the lock is free.
NoThread == "none"

Pubs == {"p1", "p2"}

Writers == {"w1"}

Threads == Pubs \cup Writers

\* The thread whose publish cycle calls setRobotDescriptionIfChanged.
Republishers == {"p1"}

\* The empty std::map.
EmptyMap == [j \in {} |-> 0]

\* std::map::insert(make_pair(k, v)): keeps the old value when k is a key.
MapInsert(m, k, v) ==
  IF k \in DOMAIN m THEN m
  ELSE [x \in DOMAIN m \cup {k} |-> IF x = k THEN v ELSE m[x]]

\* Frame names are strings, modelled as sequences of characters.
LinkName(l) ==
  CASE l = "base" -> <<"/", "B">>
    [] l = "l1" -> <<"L", "1">>
    [] l = "l2" -> <<"/", "L", "2">>
    [] l = "l3" -> <<"L", "3">>

\* The kinematic chain of the robot: joint a: base -> l1, b: l1 -> l2,
\* c: base -> l3.
ParentLink(j) == CASE j = "a" -> "base" [] j = "b" -> "l1" [] j = "c" -> "base"

ChildLink(j) == CASE j = "a" -> "l1" [] j = "b" -> "l2" [] j = "c" -> "l3"

\* A robot description (urdf::Model): joints_ maps a joint name to its type
\* (REVOLUTE, FIXED or FLOATING: the types the publisher tells apart)
\* and, when the joint has one, its mimic (joint_name, multiplier, offset).
MkDesc(type, mimic) == [type |-> type, mimic |-> mimic]

Mimic(src, mult, off) == [joint_name |-> src, multiplier |-> mult, offset |-> off]

\* The descriptions the robot is constructed with and swapped to.
DescA ==
  MkDesc([j \in {"a", "b", "c"} |->
            CASE j = "a" -> "REVOLUTE" [] j = "b" -> "FIXED" [] j = "c" -> "REVOLUTE"],
         [j \in {"c"} |-> Mimic("a", 2, 1)])

DescB ==
  MkDesc([j \in {"a", "b", "c"} |->
            CASE j = "a" -> "REVOLUTE" [] j = "b" -> "FLOATING" [] j = "c" -> "FIXED"],
         [j \in {"b"} |-> Mimic("a", 1, 0)])

DescC ==
  MkDesc([j \in {"a", "c"} |->
            CASE j = "a" -> "FIXED" [] j = "c" -> "FLOATING"],
         EmptyMap)

Descs == {DescA, DescB, DescC}

\* The multipliers and offsets of the mimic relations tried.
Multipliers == {1, 2}

Offsets == {0, 1}

Mimics == {Mimic(src, m, o) : src \in Joints, m \in Multipliers, o \in Offsets}

\* Every description of three revolute joints with any mimic relations,
\* chains and self-references included: the URDF format rules out neither.
MimicDescs ==
  {MkDesc([j \in Joints |-> "REVOLUTE"], mm) :
     mm \in UNION {[S -> Mimics] : S \in SUBSET Joints}}

\* All joint-position batches (std::map<std::string, double>).
Batches ==
  UNION {[S -> 1..MaxPos] : S \in SUBSET Joints}

\* The batches the publisher threads are driven with in the concurrent model.
PubBatches == {b \in Batches : "a" \in DOMAIN b /\ \A j \in DOMAIN b : b[j] = 1}

\* ------------------------------------------------------------ the KDL tree
\* kdl_parser: a urdf joint of type FIXED or FLOATING becomes a KDL joint of
\* type None, every other joint a moving KDL joint.
KdlJointType(t) == IF t \in {"FIXED", "FLOATING"} THEN "None" ELSE "RotAxis"

\* The tree before RobotKDLTree::init(): a root segment without children.
EmptyTree == [l \in {"base"} |-> [joint |-> "", jtype |-> "None", children |-> <<>>]]

\* KDL::Tree of a description: segment name -> (joint, joint type, children).
TreeOf(d) ==
  LET present == {ChildLink(j) : j \in DOMAIN d.type}
      jointOf(l) == CHOOSE j \in DOMAIN d.type : ChildLink(j) = l
      kids(l) == SelectSeq(JointOrder,
                           LAMBDA j : j \in DOMAIN d.type /\ ParentLink(j) = l)
  IN [l \in present \cup {"base"} |->
        [joint |-> IF l = "base" THEN "" ELSE jointOf(l),
         jtype |-> IF l = "base" THEN "None" ELSE KdlJointType(d.type[jointOf(l)]),
         children |-> [i \in 1..Len(kids(l)) |-> ChildLink(kids(l)[i])]]]

\* SegmentPair(segment, root, tip)
SegmentPair(segment, root, tip) == [segment |-> segment, root |-> root, tip |-> tip]

\* The children addChildren visits from `segment`, in the order of its
\* depth-first recursion: each child, then the child's own subtree.
RECURSIVE ChildrenWalk(_, _)
ChildrenWalk(tree, segment) ==
  LET children == tree[segment].children
      RECURSIVE From(_)
      From(i) ==
        IF i > Len(children) THEN <<>>
        ELSE <<[child |-> children[i],
                joint |-> tree[children[i]].joint,
                jtype |-> tree[children[i]].jtype,
                s |-> SegmentPair(children[i], LinkName(segment), LinkName(children[i]))]>>
             \o ChildrenWalk(tree, children[i]) \o From(i + 1)
  IN From(1)

\* model_.getJoint(name) && model_.getJoint(name)->type == urdf::Joint::FLOATING
ModelSaysFloating(model, name) ==
  name \in DOMAIN model.type /\ model.type[name] = "FLOATING"

\* The body of addChildren's loop for one child c, on the pair of tables
\* tabs = [moving |-> segments_, fixed |-> segments_fixed_].
AddChild(tabs, model, c) ==
  IF c.jtype = "None"
  THEN IF ModelSaysFloating(model, c.joint)
       THEN tabs
       ELSE [tabs EXCEPT !.fixed = MapInsert(tabs.fixed, c.joint, c.s)]
  ELSE [tabs EXCEPT !.moving = MapInsert(tabs.moving, c.joint, c.s)]

\* addChildren(getTree().getRootSegment()) run to completion on tabs.
RECURSIVE AddChildrenFrom(_, _, _, _)
AddChildrenFrom(tabs, model, walk, i) ==
  IF i > Len(walk) THEN tabs
  ELSE AddChildrenFrom(AddChild(tabs, model, walk[i]), model, walk, i + 1)

addChildren(tabs, model, tree) ==
  AddChildrenFrom(tabs, model, ChildrenWalk(tree, "base"), 1)

\* ----------------------------------------------------------- the mimic map
\* The body of setJointMimicMap's loop for joint j of the model.
MimicInsert(mimic, model, j) ==
  IF j \in DOMAIN model.mimic
  THEN MapInsert(mimic, j, model.mimic[j])
  ELSE mimic

RECURSIVE MimicInsertFrom(_, _, _, _)
MimicInsertFrom(mimic, model, keys, i) ==
  IF i > Len(keys) THEN mimic
  ELSE MimicInsertFrom(MimicInsert(mimic, model, keys[i]), model, keys, i + 1)

\* setJointMimicMap(model) run to completion: mimic_.clear(), then the loop.
setJointMimicMap(model) ==
  MimicInsertFrom(EmptyMap, model, SortedKeys(DOMAIN model.type), 1)

\* std::map::operator[]= in place of insert: the derived position replaces a
\* supplied one.
MimicPositionOverwrite(joint_positions, mimic, k) ==
  LET m == mimic[k]
  IN IF m.joint_name \in DOMAIN joint_positions
     THEN [x \in DOMAIN joint_positions \cup {k} |->
             IF x = k
             THEN joint_positions[m.joint_name] * m.multiplier + m.offset
             ELSE joint_positions[x]]
     ELSE joint_positions

\* The body of getJointMimicPositions' loop for the mimic entry keyed k.
MimicPosition(joint_positions, mimic, k) ==
  LET m == mimic[k]
  IN IF m.joint_name \in DOMAIN joint_positions
     THEN MapInsert(joint_positions, k,
                    joint_positions[m.joint_name] * m.multiplier + m.offset)
     ELSE joint_positions

\* ------------------------------------------------------------- publishing
\* The characters frame names are made of: the separator and another one.
FrameChars == {"/", "x"}

\* All frame names of at most MaxLen characters, the empty one included.
FrameNames == UNION {[1..n -> FrameChars] : n \in 0..MaxLen}

\* A loop in place of the if: every leading '/' is removed.
RECURSIVE stripSlashes(_)
stripSlashes(in) ==
  IF Len(in) > 0 /\ in[1] = "/" THEN stripSlashes(Tail(in)) ELSE in

stripSlash(in) ==
  IF Len(in) > 0 /\ in[1] = "/" THEN Tail(in) ELSE in

\* tf2::kdlToTransform(seg.segment.pose(q)) with its header filled in; the
\* pose of a segment at an angle is kept symbolic.
TransformStamped(seg, q, stamp) ==
  [stamp |-> stamp,
   frame_id |-> stripSlash(seg.root),
   child_frame_id |-> stripSlash(seg.tip),
   transform |-> <<seg.segment, q>>]

\* ------------------------------------------------------------------ state
VARIABLES
  model_,           \* the urdf::Model the publisher was constructed with
  tree,             \* RobotKDLTree's KDL tree (getTree())
  urdf_ptr,         \* what getUrdfPtr() returns: <<>> (null) or <<description>>
  initialized_,
  urdf_changed_,
  segments_,        \* moving table: joint name -> SegmentPair
  segments_fixed_,  \* fixed table: joint name -> SegmentPair
  mimic_,           \* joint name -> mimic
  m_swapMutex,      \* the thread owning it exclusively, or NoThread
  mimic_mtx_,       \* [writer |-> thread or NoThread, readers |-> set of threads,
                    \*  exclusive_waiting_blocked |-> a writer waits inside lock()]
  pc,               \* where each thread is in the call it is running
  loc,              \* each thread's arguments and locals of that call
  active,           \* history: the description the tree was last built from
  built,            \* history: the tables as the last finished build left them
  pending,          \* history: which setRobotDescriptionIfChanged call after the
                    \* last finished swap comes next: "first", "running" (the
                    \* first has not returned), "second", or "none"
  init_returned     \* history: what the last call of init() returned: "true",
                    \* "false", or "none" before the first call

vars ==
  <<model_, tree, urdf_ptr, initialized_, urdf_changed_, segments_, segments_fixed_,
    mimic_, m_swapMutex, mimic_mtx_, pc, loc, active, built, pending, init_returned>>

shared ==
  <<model_, tree, urdf_ptr, initialized_, urdf_changed_, segments_, segments_fixed_,
    mimic_, active, built, init_returned>>

\* A thread's locals when it runs no call.
NoLocals ==
  [op |-> "", joint_positions |-> EmptyMap, use_tf_static |-> FALSE, idx |-> 0,
   tf_transforms |-> <<>>, sent |-> <<>>, blocker |-> NoThread, input |-> EmptyMap,
   attempts |-> 0, expect |-> ""]

Tables == [moving |-> segments_, fixed |-> segments_fixed_]

\* RobotStatePublisher::RobotStatePublisher(model): initialized_(false),
\* model_(model), setJointMimicMap(model); the tables are empty and no
\* description change is pending.
InitWith(models) ==
  /\ model_ \in models
  /\ tree = EmptyTree
  /\ urdf_ptr = <<model_>>
  /\ initialized_ = FALSE
  /\ urdf_changed_ = FALSE
  /\ segments_ = EmptyMap
  /\ segments_fixed_ = EmptyMap
  /\ mimic_ = setJointMimicMap(model_)
  /\ m_swapMutex = NoThread
  /\ mimic_mtx_ = [writer |-> NoThread, readers |-> {}, exclusive_waiting_blocked |-> FALSE]
  /\ pc = [t \in Threads |-> "idle"]
  /\ loc = [t \in Threads |-> NoLocals]
  /\ active = model_
  /\ built = [moving |-> EmptyMap, fixed |-> EmptyMap]
  /\ pending = "none"
  /\ init_returned = "none"

Init == InitWith(Descs)

Goto(t, label) == pc' = [pc EXCEPT ![t] = label]

\* ------------------------------------------------------------------- init()
\* init() with addChildren run also when RobotKDLTree::init() has failed
\* half-way, on the part of the tree that was built.
initPartial ==
  /\ \A t \in Threads : pc[t] = "idle"
  /\ ~initialized_
  /\ \E ok \in BOOLEAN :
       LET t == TreeOf(model_)
           tabs == addChildren(Tables, model_, t)
       IN /\ tree' = t
          /\ segments_' = tabs.moving
          /\ segments_fixed_' = tabs.fixed
          /\ built' = tabs
          /\ initialized_' = ok
          /\ init_returned' = IF ok THEN "true" ELSE "false"
  /\ UNCHANGED <<model_, urdf_ptr, urdf_changed_, mimic_, m_swapMutex, mimic_mtx_,
                 pc, loc, active, pending>>

\* bool init(): called by the owner of the publisher while no callback runs.
\* RobotKDLTree::init() builds the tree from the description or fails; init
\* returns initialized_.
init ==
  /\ \A t \in Threads : pc[t] = "idle"
  /\ ~initialized_
  /\ \E ok \in BOOLEAN :
       IF ok
       THEN LET t == TreeOf(model_)
                tabs == addChildren(Tables, model_, t)
            IN /\ tree' = t
               /\ segments_' = tabs.moving
               /\ segments_fixed_' = tabs.fixed
               /\ built' = tabs
               /\ initialized_' = TRUE
               /\ init_returned' = "true"
       ELSE /\ UNCHANGED <<tree, segments_, segments_fixed_, built, initialized_>>
            /\ init_returned' = "false"
  /\ UNCHANGED <<model_, urdf_ptr, urdf_changed_, mimic_, m_swapMutex, mimic_mtx_,
                 pc, loc, active, pending>>

\* --------------------------------------------------- the structure lock
\* boost::unique_lock<boost::shared_mutex> lock(m_swapMutex, boost::try_to_lock)
\* followed by lock.owns_lock(): the one attempt succeeds when nobody holds
\* the mutex.
OwnsLockBlind == TRUE

OwnsLock == m_swapMutex = NoThread

\* if (!lock.owns_lock()) without its return: the call goes on unlocked.
TryLockThenGoOn(p, label) ==
  /\ m_swapMutex' = IF OwnsLock THEN p ELSE m_swapMutex
  /\ Goto(p, label)

\* A blocking lock in place of the try-lock: the call waits for the mutex.
TryLockThenWait(p, label) ==
  /\ OwnsLock
  /\ m_swapMutex' = p
  /\ Goto(p, label)

\* The call of thread p begins with its try-lock: it proceeds at `label`
\* owning the mutex, or gives up.
TryLockThen(p, label) ==
  IF OwnsLock
  THEN m_swapMutex' = p /\ Goto(p, label)
  ELSE UNCHANGED m_swapMutex /\ Goto(p, "skipped")

\* ------------------------------------------------------ publishTransforms
\* publishTransforms(joint_positions, time) with joint_positions any batch
\* of `batches`.
publishTransforms_TryLockWith(p, batches) ==
  /\ pc[p] = "idle"
  /\ \E jp \in batches :
       loc' = [loc EXCEPT ![p] = [NoLocals EXCEPT !.op = "publishTransforms",
                                                  !.joint_positions = jp,
                                                  !.idx = 1,
                                                  !.attempts = 1,
                                                  !.blocker = m_swapMutex]]
  /\ TryLockThen(p, "pt_loop")
  /\ UNCHANGED <<shared, mimic_mtx_, pending>>

publishTransforms_TryLock(p) == publishTransforms_TryLockWith(p, PubBatches)

\* The loop leaving at the first joint without a segment in place of going on
\* to the next.
publishTransforms_LoopStops(p) ==
  /\ pc[p] = "pt_loop"
  /\ LET jp == loc[p].joint_positions
         keys == SortedKeys(DOMAIN jp)
         i == loc[p].idx
     IN /\ i <= Len(keys)
        /\ loc' = [loc EXCEPT
                     ![p].idx = IF keys[i] \in DOMAIN segments_ THEN i + 1 ELSE Len(keys) + 1,
                     ![p].tf_transforms =
                       IF keys[i] \in DOMAIN segments_
                       THEN Append(@, TransformStamped(segments_[keys[i]], jp[keys[i]], "time"))
                       ELSE @]
  /\ UNCHANGED <<shared, m_swapMutex, mimic_mtx_, pc, pending>>

\* One iteration of the loop over joint_positions.
publishTransforms_Loop(p) ==
  /\ pc[p] = "pt_loop"
  /\ LET jp == loc[p].joint_positions
         keys == SortedKeys(DOMAIN jp)
         i == loc[p].idx
     IN /\ i <= Len(keys)
        /\ loc' = [loc EXCEPT
                     ![p].idx = i + 1,
                     ![p].tf_transforms =
                       IF keys[i] \in DOMAIN segments_
                       THEN Append(@, TransformStamped(segments_[keys[i]], jp[keys[i]], "time"))
                       ELSE @]
  /\ UNCHANGED <<shared, m_swapMutex, mimic_mtx_, pc, pending>>

\* tf_broadcaster_.sendTransform(tf_transforms)
publishTransforms_Send(p) ==
  /\ pc[p] = "pt_loop"
  /\ loc[p].idx > Len(SortedKeys(DOMAIN loc[p].joint_positions))
  /\ loc' = [loc EXCEPT ![p].sent =
               Append(@, [sink |-> "dynamic", batch |-> loc[p].tf_transforms])]
  /\ Goto(p, "ret")
  /\ UNCHANGED <<shared, m_swapMutex, mimic_mtx_, pending>>

\* ------------------------------------------------- publishFixedTransforms
\* Called directly (any use_tf_static) or by setRobotDescriptionIfChanged
\* (use_tf_static = true).
publishFixedTransforms_TryLock(p) ==
  /\ pc[p] \in {"idle", "srd_publish"}
  /\ \E use_tf_static \in BOOLEAN :
       /\ pc[p] = "srd_publish" => use_tf_static
       /\ loc' = [loc EXCEPT ![p] =
                    [(IF pc[p] = "idle"
                      THEN [NoLocals EXCEPT !.op = "publishFixedTransforms"]
                      ELSE loc[p])
                     EXCEPT !.use_tf_static = use_tf_static,
                            !.idx = 1,
                            !.attempts = @ + 1,
                            !.blocker = m_swapMutex]]
  /\ TryLockThen(p, "pf_loop")
  /\ UNCHANGED <<shared, mimic_mtx_, pending>>

\* One iteration of the loop over segments_fixed_.
publishFixedTransforms_Loop(p) ==
  /\ pc[p] = "pf_loop"
  /\ LET keys == SortedKeys(DOMAIN segments_fixed_)
         i == loc[p].idx
         stamp == IF loc[p].use_tf_static THEN "now" ELSE "now+0.5"
     IN /\ i <= Len(keys)
        /\ loc' = [loc EXCEPT
                     ![p].idx = i + 1,
                     ![p].tf_transforms =
                       Append(@, TransformStamped(segments_fixed_[keys[i]], 0, stamp))]
  /\ UNCHANGED <<shared, m_swapMutex, mimic_mtx_, pc, pending>>

\* static_tf_broadcaster_ or tf_broadcaster_ .sendTransform(tf_transforms)
publishFixedTransforms_Send(p) ==
  /\ pc[p] = "pf_loop"
  /\ loc[p].idx > Len(SortedKeys(DOMAIN segments_fixed_))
  /\ loc' = [loc EXCEPT ![p].sent =
               Append(@, [sink |-> IF loc[p].use_tf_static THEN "static" ELSE "dynamic",
                          batch |-> loc[p].tf_transforms])]
  /\ Goto(p, "ret")
  /\ UNCHANGED <<shared, m_swapMutex, mimic_mtx_, pending>>

\* ------------------------------------------- setRobotDescriptionIfChanged
\* if (urdf_changed_)
setRobotDescriptionIfChanged_Check(p) ==
  /\ p \in Republishers
  /\ pc[p] = "idle"
  /\ loc' = [loc EXCEPT ![p] =
               [NoLocals EXCEPT !.op = "setRobotDescriptionIfChanged",
                                !.expect = CASE pending = "first" -> "all"
                                             [] pending = "second" -> "nothing"
                                             [] OTHER -> ""]]
  /\ pending' = CASE pending = "first" -> "running"
                  [] pending = "second" -> "none"
                  [] OTHER -> pending
  /\ IF urdf_changed_ THEN Goto(p, "srd_clear") ELSE Goto(p, "noop")
  /\ UNCHANGED <<shared, m_swapMutex, mimic_mtx_>>

\* urdf_changed_ = false; setRobotDescription();
setRobotDescriptionIfChanged_Clear(p) ==
  /\ pc[p] = "srd_clear"
  /\ urdf_changed_' = FALSE
  /\ Goto(p, "srd_publish")
  /\ UNCHANGED <<model_, tree, urdf_ptr, initialized_, segments_, segments_fixed_,
                 mimic_, active, init_returned, built, m_swapMutex, mimic_mtx_, loc, pending>>

\* ------------------------------------------------ getJointMimicPositions
\* The result of the shared try-lock ignored.
OwnsSharedLockBlind == TRUE

\* A shared try-lock that a waiting writer does not turn down.
OwnsSharedLockBarging == mimic_mtx_.writer = NoThread

\* boost::shared_lock<boost::shared_mutex> lock(mimic_mtx_, boost::try_to_lock)
\* followed by lock.owns_lock(): the one attempt succeeds when no writer
\* holds the mutex and none waits for it inside lock().
OwnsSharedLock ==
  mimic_mtx_.writer = NoThread /\ ~mimic_mtx_.exclusive_waiting_blocked

\* The writer a shared try-lock made now would fail on: the one holding the
\* mutex, or the one waiting for it; NoThread when it would succeed.
MimicBlocker ==
  IF mimic_mtx_.writer # NoThread THEN mimic_mtx_.writer
  ELSE IF mimic_mtx_.exclusive_waiting_blocked
       THEN CHOOSE w \in Writers : pc[w] = "mm_lock"
       ELSE NoThread

\* if (!lock.owns_lock()) without its return false: the loop runs unlocked.
getJointMimicPositions_TryLockGoOn(p, batches) ==
  /\ pc[p] = "idle"
  /\ \E jp \in batches :
       loc' = [loc EXCEPT ![p] = [NoLocals EXCEPT !.op = "getJointMimicPositions",
                                                  !.joint_positions = jp,
                                                  !.input = jp,
                                                  !.idx = 1,
                                                  !.attempts = 1,
                                                  !.blocker = MimicBlocker]]
  /\ mimic_mtx_' = IF OwnsSharedLock
                   THEN [mimic_mtx_ EXCEPT !.readers = @ \cup {p}]
                   ELSE mimic_mtx_
  /\ Goto(p, "gm_loop")
  /\ UNCHANGED <<shared, m_swapMutex, pending>>

getJointMimicPositions_TryLock(p, batches) ==
  /\ pc[p] = "idle"
  /\ \E jp \in batches :
       loc' = [loc EXCEPT ![p] = [NoLocals EXCEPT !.op = "getJointMimicPositions",
                                                  !.joint_positions = jp,
                                                  !.input = jp,
                                                  !.idx = 1,
                                                  !.attempts = 1,
                                                  !.blocker = MimicBlocker]]
  /\ IF OwnsSharedLock
     THEN /\ mimic_mtx_' = [mimic_mtx_ EXCEPT !.readers = @ \cup {p}]
          /\ Goto(p, "gm_loop")
     ELSE /\ UNCHANGED mimic_mtx_
          /\ Goto(p, "skipped")
  /\ UNCHANGED <<shared, m_swapMutex, pending>>

\* One iteration of the loop over mimic_.
getJointMimicPositions_Loop(p) ==
  /\ pc[p] = "gm_loop"
  /\ LET keys == SortedKeys(DOMAIN mimic_)
         i == loc[p].idx
     IN /\ i <= Len(keys)
        /\ loc' = [loc EXCEPT
                     ![p].idx = i + 1,
                     ![p].joint_positions = MimicPosition(@, mimic_, keys[i])]
  /\ UNCHANGED <<shared, m_swapMutex, mimic_mtx_, pc, pending>>

\* return true;
getJointMimicPositions_End(p) ==
  /\ pc[p] = "gm_loop"
  /\ loc[p].idx > Len(SortedKeys(DOMAIN mimic_))
  /\ Goto(p, "gm_ret")
  /\ UNCHANGED <<shared, m_swapMutex, mimic_mtx_, loc, pending>>

\* ----------------------------------------------------------------- return
\* The call returns to its caller: the scoped lock it holds, if any, is
\* released and its locals are gone.
Return(p) ==
  /\ pc[p] \in {"ret", "skipped", "noop", "gm_ret"}
  /\ m_swapMutex' = IF pc[p] = "ret" THEN NoThread ELSE m_swapMutex
  /\ mimic_mtx_' = IF pc[p] = "gm_ret"
                   THEN [mimic_mtx_ EXCEPT
                           !.readers = @ \ {p},
                           !.exclusive_waiting_blocked = @ /\ mimic_mtx_.readers # {p}]
                   ELSE mimic_mtx_
  /\ pending' = IF loc[p].expect = "all" /\ pending = "running" THEN "second" ELSE pending
  /\ loc' = [loc EXCEPT ![p] = NoLocals]
  /\ Goto(p, "idle")
  /\ UNCHANGED shared

\* ------------------------------------------------------------- onURDFSwap
\* The hot swap takes the structure lock as a writer: it waits until it has
\* exclusive access and keeps it until onURDFSwap has returned.
onURDFSwap_Enter(w) ==
  /\ pc[w] = "idle"
  /\ m_swapMutex = NoThread
  /\ m_swapMutex' = w
  /\ Goto(w, "sw_check")
  /\ pending' = "none"
  /\ loc' = [t \in Threads |-> [loc[t] EXCEPT !.expect = ""]]
  /\ UNCHANGED <<shared, mimic_mtx_>>

\* onURDFSwap without its first line: the rebuild runs initialized or not.
onURDFSwap_Unguarded(w) ==
  /\ pc[w] = "sw_check"
  /\ Goto(w, "sw_base")
  /\ UNCHANGED <<shared, m_swapMutex, mimic_mtx_, loc, pending>>

\* urdf_changed_ = true moved up to the start of the call, before the rebuild.
onURDFSwap_CheckInitializedSetsFlag(w) ==
  /\ pc[w] = "sw_check"
  /\ urdf_changed_' = (urdf_changed_ \/ initialized_)
  /\ IF initialized_ THEN Goto(w, "sw_base") ELSE Goto(w, "sw_leave")
  /\ UNCHANGED <<model_, tree, urdf_ptr, initialized_, segments_, segments_fixed_,
                 mimic_, active, built, init_returned, m_swapMutex, mimic_mtx_, loc,
                 pending>>

\* if (!initialized_) return;
onURDFSwap_CheckInitialized(w) ==
  /\ pc[w] = "sw_check"
  /\ IF initialized_ THEN Goto(w, "sw_base") ELSE Goto(w, "sw_leave")
  /\ UNCHANGED <<shared, m_swapMutex, mimic_mtx_, loc, pending>>

\* RobotKDLTree::onURDFSwap(link_name): the tree is rebuilt from the newly
\* active description d; when the description cannot be retrieved the tree
\* stays as it is and getUrdfPtr() gives null.
onURDFSwap_Base(w) ==
  /\ pc[w] = "sw_base"
  /\ \E d \in Descs, ok \in BOOLEAN :
       IF ok
       THEN tree' = TreeOf(d) /\ urdf_ptr' = <<d>> /\ active' = d
       ELSE urdf_ptr' = <<>> /\ UNCHANGED <<tree, active>>
  /\ Goto(w, "sw_clear_fixed")
  /\ UNCHANGED <<model_, initialized_, urdf_changed_, segments_, segments_fixed_,
                 mimic_, built, init_returned, m_swapMutex, mimic_mtx_, loc, pending>>

\* segments_fixed_.clear();
onURDFSwap_ClearFixed(w) ==
  /\ pc[w] = "sw_clear_fixed"
  /\ segments_fixed_' = EmptyMap
  /\ Goto(w, "sw_clear")
  /\ UNCHANGED <<model_, tree, urdf_ptr, initialized_, urdf_changed_, segments_,
                 mimic_, active, init_returned, built, m_swapMutex, mimic_mtx_, loc, pending>>

\* segments_.clear();
onURDFSwap_Clear(w) ==
  /\ pc[w] = "sw_clear"
  /\ segments_' = EmptyMap
  /\ loc' = [loc EXCEPT ![w].idx = 1]
  /\ Goto(w, "sw_add")
  /\ UNCHANGED <<model_, tree, urdf_ptr, initialized_, urdf_changed_, segments_fixed_,
                 mimic_, active, init_returned, built, m_swapMutex, mimic_mtx_, pending>>

\* addChildren(getTree().getRootSegment()): one child per step, in the order
\* of the recursion; after the last child the build is finished.
onURDFSwap_AddChildren(w) ==
  /\ pc[w] = "sw_add"
  /\ LET walk == ChildrenWalk(tree, "base")
         i == loc[w].idx
         tabs == IF i <= Len(walk) THEN AddChild(Tables, model_, walk[i]) ELSE Tables
     IN /\ segments_' = tabs.moving
        /\ segments_fixed_' = tabs.fixed
        /\ loc' = [loc EXCEPT ![w].idx = i + 1]
        /\ IF i >= Len(walk)
           THEN built' = tabs /\ Goto(w, "sw_urdf")
           ELSE UNCHANGED <<built, pc>>
  /\ UNCHANGED <<model_, tree, urdf_ptr, initialized_, urdf_changed_, mimic_, active,
                 init_returned,
                 m_swapMutex, mimic_mtx_, pending>>

\* The else branch clearing the mimic map in place of only logging.
onURDFSwap_GetUrdfPtrClears(w) ==
  /\ pc[w] = "sw_urdf"
  /\ IF urdf_ptr # <<>>
     THEN Goto(w, "mm_lock") /\ UNCHANGED mimic_
     ELSE Goto(w, "sw_changed") /\ mimic_' = EmptyMap
  /\ UNCHANGED <<model_, tree, urdf_ptr, initialized_, urdf_changed_, segments_,
                 segments_fixed_, active, init_returned, built, m_swapMutex, mimic_mtx_, loc, pending>>

\* urdf_ptr = getUrdfPtr(); if (urdf_ptr) setJointMimicMap(*urdf_ptr) else ROS_ERROR
onURDFSwap_GetUrdfPtr(w) ==
  /\ pc[w] = "sw_urdf"
  /\ IF urdf_ptr # <<>> THEN Goto(w, "mm_lock") ELSE Goto(w, "sw_changed")
  /\ UNCHANGED <<shared, m_swapMutex, mimic_mtx_, loc, pending>>

\* boost::unique_lock<boost::shared_mutex> lock(mimic_mtx_): waits for
\* exclusive access.
setJointMimicMap_Lock(w) ==
  /\ pc[w] = "mm_lock"
  /\ mimic_mtx_.writer = NoThread
  /\ mimic_mtx_.readers = {}
  /\ mimic_mtx_' = [mimic_mtx_ EXCEPT !.writer = w]
  /\ Goto(w, "mm_clear")
  /\ UNCHANGED <<shared, m_swapMutex, loc, pending>>

\* The same lock() finding readers inside: it marks the mutex as awaited by
\* a writer, which turns further shared attempts down, and goes on waiting.
setJointMimicMap_LockWait(w) ==
  /\ pc[w] = "mm_lock"
  /\ mimic_mtx_.readers # {}
  /\ ~mimic_mtx_.exclusive_waiting_blocked
  /\ mimic_mtx_' = [mimic_mtx_ EXCEPT !.exclusive_waiting_blocked = TRUE]
  /\ UNCHANGED <<shared, m_swapMutex, pc, loc, pending>>

\* mimic_.clear();
setJointMimicMap_Clear(w) ==
  /\ pc[w] = "mm_clear"
  /\ mimic_' = EmptyMap
  /\ loc' = [loc EXCEPT ![w].idx = 1]
  /\ Goto(w, "mm_loop")
  /\ UNCHANGED <<model_, tree, urdf_ptr, initialized_, urdf_changed_, segments_,
                 segments_fixed_, active, init_returned, built, m_swapMutex, mimic_mtx_, pending>>

\* One iteration of the loop over model.joints_.
setJointMimicMap_Loop(w) ==
  /\ pc[w] = "mm_loop"
  /\ LET model == urdf_ptr[1]
         keys == SortedKeys(DOMAIN model.type)
         i == loc[w].idx
     IN /\ i <= Len(keys)
        /\ mimic_' = MimicInsert(mimic_, model, keys[i])
        /\ loc' = [loc EXCEPT ![w].idx = i + 1]
  /\ UNCHANGED <<model_, tree, urdf_ptr, initialized_, urdf_changed_, segments_,
                 segments_fixed_, active, init_returned, built, m_swapMutex, mimic_mtx_, pc, pending>>

\* setJointMimicMap returns: its lock is released.
setJointMimicMap_Unlock(w) ==
  /\ pc[w] = "mm_loop"
  /\ loc[w].idx > Len(SortedKeys(DOMAIN urdf_ptr[1].type))
  /\ mimic_mtx_' = [mimic_mtx_ EXCEPT !.writer = NoThread,
                                      !.exclusive_waiting_blocked = FALSE]
  /\ Goto(w, "sw_changed")
  /\ UNCHANGED <<shared, m_swapMutex, loc, pending>>

\* urdf_changed_ = true;
onURDFSwap_SetChanged(w) ==
  /\ pc[w] = "sw_changed"
  /\ urdf_changed_' = TRUE
  /\ loc' = [loc EXCEPT ![w].op = "swapped"]
  /\ Goto(w, "sw_leave")
  /\ UNCHANGED <<model_, tree, urdf_ptr, initialized_, segments_, segments_fixed_,
                 mimic_, active, init_returned, built, m_swapMutex, mimic_mtx_, pending>>

\* onURDFSwap has returned: the writer gives the structure lock back.
onURDFSwap_Leave(w) ==
  /\ pc[w] = "sw_leave"
  /\ m_swapMutex' = NoThread
  /\ pending' = IF loc[w].op = "swapped" THEN "first" ELSE pending
  /\ loc' = [loc EXCEPT ![w] = NoLocals]
  /\ Goto(w, "idle")
  /\ UNCHANGED <<shared, mimic_mtx_>>

\* ---------------------------------------------------------- specification
PubStep(p) ==
  \/ publishTransforms_TryLock(p)
  \/ publishTransforms_Loop(p)
  \/ publishTransforms_Send(p)
  \/ publishFixedTransforms_TryLock(p)
  \/ publishFixedTransforms_Loop(p)
  \/ publishFixedTransforms_Send(p)
  \/ setRobotDescriptionIfChanged_Check(p)
  \/ setRobotDescriptionIfChanged_Clear(p)
  \/ getJointMimicPositions_TryLock(p, PubBatches)
  \/ getJointMimicPositions_Loop(p)
  \/ getJointMimicPositions_End(p)
  \/ Return(p)

SwapStep(w) ==
  \/ onURDFSwap_Enter(w)
  \/ onURDFSwap_CheckInitialized(w)
  \/ onURDFSwap_Base(w)
  \/ onURDFSwap_ClearFixed(w)
  \/ onURDFSwap_Clear(w)
  \/ onURDFSwap_AddChildren(w)
  \/ onURDFSwap_GetUrdfPtr(w)
  \/ setJointMimicMap_Lock(w)
  \/ setJointMimicMap_LockWait(w)
  \/ setJointMimicMap_Clear(w)
  \/ setJointMimicMap_Loop(w)
  \/ setJointMimicMap_Unlock(w)
  \/ onURDFSwap_SetChanged(w)
  \/ onURDFSwap_Leave(w)

Next ==
  \/ init
  \/ \E p \in Pubs : PubStep(p)
  \/ \E w \in Writers : SwapStep(w)

Spec == Init /\ [][Next]_vars

\* The mimic resolver alone: one thread expands every batch against the mimic
\* map of every description the publisher can be constructed with.
InitMimic == InitWith(MimicDescs)

NextMimic ==
  \/ getJointMimicPositions_TryLock("p1", Batches)
  \/ getJointMimicPositions_Loop("p1")
  \/ getJointMimicPositions_End("p1")
  \/ Return("p1")

SpecMimic == InitMimic /\ [][NextMimic]_vars

\* The hot swap among publishers that never pause: every thread makes every
\* call, on a publisher constructed with DescA and swapped to any
\* description, with one batch. A call in progress takes its next step and a
\* swap in progress takes its next step when it can; a writer inside lock()
\* gets the mutex if the mutex is free again and again.
LiveBatches == {[j \in {"a"} |-> 1]}

InitLive == InitWith({DescA})

LivePubStep(p) ==
  \/ publishTransforms_TryLockWith(p, LiveBatches)
  \/ publishTransforms_Loop(p)
  \/ publishTransforms_Send(p)
  \/ publishFixedTransforms_TryLock(p)
  \/ publishFixedTransforms_Loop(p)
  \/ publishFixedTransforms_Send(p)
  \/ setRobotDescriptionIfChanged_Check(p)
  \/ setRobotDescriptionIfChanged_Clear(p)
  \/ getJointMimicPositions_TryLock(p, LiveBatches)
  \/ getJointMimicPositions_Loop(p)
  \/ getJointMimicPositions_End(p)
  \/ Return(p)

NextLive ==
  \/ init
  \/ \E p \in Pubs : LivePubStep(p)
  \/ \E w \in Writers : SwapStep(w)

\* A step of a call of p that has begun.
CallStep(p) == pc[p] # "idle" /\ LivePubStep(p)

\* A step of an onURDFSwap of w that has begun.
SwapRuns(w) == pc[w] # "idle" /\ SwapStep(w)

SpecLive ==
  /\ InitLive
  /\ [][NextLive]_vars
  /\ \A p \in Pubs : WF_vars(CallStep(p))
  /\ \A w \in Writers : WF_vars(SwapRuns(w)) /\ SF_vars(setJointMimicMap_Lock(w))

\* publishTransforms alone: one thread publishes every batch, before and
\* after init, on the tables of every description.
NextMoving ==
  \/ init
  \/ publishTransforms_TryLockWith("p1", Batches)
  \/ publishTransforms_Loop("p1")
  \/ publishTransforms_Send("p1")
  \/ Return("p1")

SpecMoving == Init /\ [][NextMoving]_vars

\* The publish calls alone, on an initialized publisher of DescA whose base
\* link and first link carry any two distinct frame names: one thread
\* publishes the moving and the fixed segments.
InitNamed ==
  /\ model_ = DescA
  /\ tree = TreeOf(model_)
  /\ urdf_ptr = <<model_>>
  /\ initialized_ = TRUE
  /\ urdf_changed_ = FALSE
  /\ \E base, l1 \in FrameNames :
       /\ base # l1
       /\ segments_ = [j \in {"a", "c"} |->
                         IF j = "a" THEN SegmentPair("l1", base, l1)
                         ELSE SegmentPair("l3", base, LinkName("l3"))]
       /\ segments_fixed_ = [j \in {"b"} |-> SegmentPair("l2", l1, LinkName("l2"))]
  /\ mimic_ = setJointMimicMap(model_)
  /\ m_swapMutex = NoThread
  /\ mimic_mtx_ = [writer |-> NoThread, readers |-> {}, exclusive_waiting_blocked |-> FALSE]
  /\ pc = [t \in Threads |-> "idle"]
  /\ loc = [t \in Threads |-> NoLocals]
  /\ active = model_
  /\ built = [moving |-> segments_, fixed |-> segments_fixed_]
  /\ pending = "none"
  /\ init_returned = "true"

NextNamed ==
  \/ publishTransforms_TryLock("p1")
  \/ publishTransforms_Loop("p1")
  \/ publishTransforms_Send("p1")
  \/ publishFixedTransforms_TryLock("p1")
  \/ publishFixedTransforms_Loop("p1")
  \/ publishFixedTransforms_Send("p1")
  \/ Return("p1")

SpecNamed == InitNamed /\ [][NextNamed]_vars

\* ------------------------------------------------------- mimic resolver
\* The position a mimic entry m derives from the batch jp.
Derived(m, jp) == jp[m.joint_name] * m.multiplier + m.offset

\* C8 as stated: after a successful getJointMimicPositions, every mimic
\* entry (D, S, m, o) with S in the supplied batch has D mapped to
\* position(S) * m + o, also when the supplied batch already carried D.
ExpandAlwaysDerives ==
  \A p \in Pubs :
    pc[p] = "gm_ret" =>
      \A k \in DOMAIN mimic_ :
        mimic_[k].joint_name \in DOMAIN loc[p].input =>
          /\ k \in DOMAIN loc[p].joint_positions
          /\ loc[p].joint_positions[k] = Derived(mimic_[k], loc[p].input)

\* C8 as amended: after a successful getJointMimicPositions, every mimic
\* entry (D, S, m, o) with S in the supplied batch has D mapped to
\* position(S) * m + o when the supplied batch carried no value for D, and to
\* the supplied value of D when it carried one.
ExpandDerivesOrKeeps ==
  \A p \in Pubs :
    pc[p] = "gm_ret" =>
      \A k \in DOMAIN mimic_ :
        mimic_[k].joint_name \in DOMAIN loc[p].input =>
          /\ k \in DOMAIN loc[p].joint_positions
          /\ loc[p].joint_positions[k] =
               IF k \in DOMAIN loc[p].input
               THEN loc[p].input[k]
               ELSE Derived(mimic_[k], loc[p].input)

\* C8 witness: an expand has finished with one dependent derived from its
\* supplied source and another whose supplied value differs from the derived.
ExpandDerivedAndKept ==
  \E p \in Pubs :
    /\ pc[p] = "gm_ret"
    /\ \E k1, k2 \in DOMAIN mimic_ :
         /\ mimic_[k1].joint_name \in DOMAIN loc[p].input
         /\ k1 \notin DOMAIN loc[p].input
         /\ loc[p].joint_positions[k1] = Derived(mimic_[k1], loc[p].input)
         /\ mimic_[k2].joint_name \in DOMAIN loc[p].input
         /\ k2 \in DOMAIN loc[p].input
         /\ loc[p].input[k2] # Derived(mimic_[k2], loc[p].input)

\* C9 as stated: after a successful getJointMimicPositions, every joint the
\* call added to the batch is a dependent whose source joint is in the batch
\* as supplied (one level of indirection, whatever the joint names).
ExpandOneLevel ==
  \A p \in Pubs :
    pc[p] = "gm_ret" =>
      \A k \in DOMAIN loc[p].joint_positions \ DOMAIN loc[p].input :
        /\ k \in DOMAIN mimic_
        /\ mimic_[k].joint_name \in DOMAIN loc[p].input

\* C10 as stated: no entry of the mimic map has its own key as source joint.
NoSelfMimic ==
  \A k \in DOMAIN mimic_ : mimic_[k].joint_name # k

\* --------------------------------------------------------- publish path
\* The calls that take the structure lock.
PublishOps == {"publishTransforms", "publishFixedTransforms", "setRobotDescriptionIfChanged"}

\* Thread p is inside a publish call that got the structure lock.
Publishing(p) == pc[p] \in {"pt_loop", "pf_loop", "ret"}

\* A writer is between its first clear() and the end of addChildren.
Rebuilding(w) == pc[w] \in {"sw_clear_fixed", "sw_clear", "sw_add"}

\* The first n elements of s, or all of s when it has fewer.
Take(s, n) == [i \in 1..(IF n < Len(s) THEN n ELSE Len(s)) |-> s[i]]

\* The transforms of the first n joints of jp (in key order) that `table` has.
MovingBatch(table, jp, n) ==
  LET keys == SelectSeq(Take(SortedKeys(DOMAIN jp), n), LAMBDA j : j \in DOMAIN table)
  IN [i \in 1..Len(keys) |-> TransformStamped(table[keys[i]], jp[keys[i]], "time")]

\* The transforms of the first n segments of `table` (in key order) at angle 0.
FixedBatch(table, n, stamp) ==
  LET keys == Take(SortedKeys(DOMAIN table), n)
  IN [i \in 1..Len(keys) |-> TransformStamped(table[keys[i]], 0, stamp)]

\* What a publish call of p has computed so far and sent, had it read only
\* the tables tabs.
BatchFrom(tabs, p) ==
  IF loc[p].op = "publishTransforms"
  THEN MovingBatch(tabs.moving, loc[p].joint_positions,
                   IF pc[p] = "ret" THEN Len(JointOrder) ELSE loc[p].idx - 1)
  ELSE FixedBatch(tabs.fixed, IF pc[p] = "ret" THEN Len(JointOrder) ELSE loc[p].idx - 1,
                  IF loc[p].use_tf_static THEN "now" ELSE "now+0.5")

SinkOf(p) ==
  IF loc[p].op = "publishTransforms" \/ ~loc[p].use_tf_static THEN "dynamic" ELSE "static"

\* C1: no torn publish. While a publish call holds the structure lock the two
\* tables are the complete result of the last finished build and no writer
\* is clearing or refilling them; what the call has computed so far, and the
\* one batch it sends, is computed from that build alone.
NoTornPublish ==
  \A p \in Pubs :
    Publishing(p) =>
      /\ Tables = built
      /\ \A w \in Writers : ~Rebuilding(w)
      /\ loc[p].tf_transforms = BatchFrom(built, p)
      /\ pc[p] = "ret" =>
           loc[p].sent = <<[sink |-> SinkOf(p), batch |-> BatchFrom(built, p)]>>

\* C1 witness: after a swap to another description has finished, a publish
\* call has sent a non-empty batch while the next swap waits for the lock.
PublishedAfterSwap ==
  \E p \in Pubs :
    /\ pc[p] = "ret"
    /\ loc[p].sent # <<>>
    /\ loc[p].sent[1].batch # <<>>
    /\ active # model_
    /\ urdf_changed_

\* C2: a publish call issued while a writer holds the structure lock is
\* skipped as a whole: it computes no transform and makes no sink call.
SkippedDuringRebuild ==
  \A p \in Pubs :
    (loc[p].op \in PublishOps /\ loc[p].blocker \in Writers) =>
      /\ pc[p] = "skipped"
      /\ loc[p].tf_transforms = <<>>
      /\ loc[p].sent = <<>>

\* C2 witness: a publishTransforms call was issued while the writer was
\* refilling the tables, and has been skipped.
SkippedWhileRefilling ==
  \E p \in Pubs, w \in Writers :
    /\ pc[p] = "skipped"
    /\ loc[p].op = "publishTransforms"
    /\ loc[p].blocker = w
    /\ pc[w] = "sw_add"
    /\ segments_ # built.moving

\* C3 as stated: a publish call is skipped only because of a writer, never
\* because of another publish call.
SkippedOnlyByWriter ==
  \A p \in Pubs :
    (pc[p] = "skipped" /\ loc[p].op \in PublishOps) => loc[p].blocker \in Writers

\* ------------------------------------------------------------ never blocks
\* The steps thread p still has to take before its call returns, at most.
StepsLeft(p) ==
  CASE pc[p] = "idle" -> 0
    [] pc[p] \in {"ret", "skipped", "noop", "gm_ret"} -> 1
    [] pc[p] = "pt_loop" ->
         2 + Len(SortedKeys(DOMAIN loc[p].joint_positions)) + 1 - loc[p].idx
    [] pc[p] = "pf_loop" -> 2 + Len(SortedKeys(DOMAIN segments_fixed_)) + 1 - loc[p].idx
    [] pc[p] = "gm_loop" -> 2 + Len(SortedKeys(DOMAIN mimic_)) + 1 - loc[p].idx
    [] pc[p] = "srd_publish" -> 3 + Len(JointOrder) + 1
    [] pc[p] = "srd_clear" -> 4 + Len(JointOrder) + 1

\* Thread p has taken a step of its call.
Stepped(p) == pc'[p] # pc[p] \/ loc'[p].idx # loc[p].idx

\* The lock attempts of a call: one once the attempt is behind it, none before.
OneAttempt(p) ==
  loc[p].attempts =
    IF pc[p] \in {"pt_loop", "pf_loop", "gm_loop", "gm_ret", "ret", "skipped"} THEN 1 ELSE 0

\* C4: publish never blocks. Whatever the other threads hold, an idle thread
\* can issue publishTransforms, publishFixedTransforms and
\* getJointMimicPositions, a thread inside a call can always take its next
\* step, every step brings the call nearer to its return and no step of
\* another thread takes it further away; a call makes one lock attempt, and
\* after a failed one it holds nothing and can only return.
PublishNeverBlocks ==
  /\ [](\A p \in Pubs :
          /\ pc[p] = "idle" =>
               /\ ENABLED publishTransforms_TryLock(p)
               /\ ENABLED publishFixedTransforms_TryLock(p)
               /\ ENABLED getJointMimicPositions_TryLock(p, PubBatches)
          /\ pc[p] # "idle" => ENABLED PubStep(p)
          /\ OneAttempt(p)
          /\ pc[p] = "skipped" =>
               /\ m_swapMutex # p
               /\ p \notin mimic_mtx_.readers
               /\ loc[p].sent = <<>>)
  /\ [][\A p \in Pubs :
          /\ StepsLeft(p)' <= StepsLeft(p) \/ pc[p] = "idle"
          /\ (Stepped(p) /\ pc[p] # "idle") => StepsLeft(p)' < StepsLeft(p)
          /\ (Stepped(p) /\ pc[p] = "skipped") => pc'[p] = "idle"]_vars

\* C4 witness: a publish call and an expand have both given up and can return
\* while the writer still holds the structure lock and the mimic-map lock.
GaveUpUnderBothLocks ==
  \E p, q \in Pubs, w \in Writers :
    /\ pc[p] = "skipped" /\ loc[p].op = "publishFixedTransforms"
    /\ pc[q] = "skipped" /\ loc[q].op = "getJointMimicPositions"
    /\ m_swapMutex = w
    /\ mimic_mtx_.writer = w

\* ------------------------------------------------------- republish flag
\* C5 as stated: the first setRobotDescriptionIfChanged call issued after an
\* onURDFSwap has completed (and before a further one begins) sends every
\* segment of the fixed table on the static sink exactly once, and the call
\* issued next after it has returned, with no swap in between, sends nothing.
RepublishedOnce ==
  \A p \in Pubs :
    (loc[p].op = "setRobotDescriptionIfChanged" /\ pc[p] \in {"ret", "skipped", "noop"}) =>
      /\ loc[p].expect = "all" =>
           IF loc[p].sent = <<>>
           THEN segments_fixed_ = EmptyMap
           ELSE loc[p].sent =
                  <<[sink |-> "static",
                     batch |-> FixedBatch(segments_fixed_, Len(JointOrder), "now")]>>
      /\ loc[p].expect = "nothing" => loc[p].sent = <<>>

\* ------------------------------------------------------------ tree builder
\* No onURDFSwap is under way and init has succeeded: the tables are those of
\* a completed build.
BuildCompleted == initialized_ /\ \A w \in Writers : pc[w] = "idle"

\* The joints of the active tree.
TreeJoints == {tree[l].joint : l \in DOMAIN tree \ {"base"}}

\* C6 as stated: after init and after every completed onURDFSwap, no joint
\* the active description classifies as floating is a key of either table.
NoFloatingSegment ==
  BuildCompleted =>
    \A j \in Joints :
      ModelSaysFloating(active, j) =>
        j \notin DOMAIN segments_ /\ j \notin DOMAIN segments_fixed_

\* C7 as stated: after any completed build every joint of the active tree is
\* in the moving table only, in the fixed table only, or in neither because
\* it is floating; no key of either table is a joint absent from the tree.
JointsPartitioned ==
  BuildCompleted =>
    \A j \in Joints :
      /\ ~(j \in DOMAIN segments_ /\ j \in DOMAIN segments_fixed_)
      /\ (j \in TreeJoints /\ ~ModelSaysFloating(active, j)) =>
           (j \in DOMAIN segments_ \/ j \in DOMAIN segments_fixed_)
      /\ (j \in TreeJoints /\ ModelSaysFloating(active, j)) =>
           (j \notin DOMAIN segments_ /\ j \notin DOMAIN segments_fixed_)
      /\ j \notin TreeJoints =>
           (j \notin DOMAIN segments_ /\ j \notin DOMAIN segments_fixed_)


\* ------------------------------------------------- description unavailable
\* Writer w is inside onURDFSwap, past RobotKDLTree::onURDFSwap, and
\* getUrdfPtr() gives null: the new description could not be retrieved.
Unavailable(w) == pc[w] \notin {"idle", "sw_check", "sw_base"} /\ urdf_ptr = <<>>

\* The tables addChildren builds from empty ones.
FreshTables == addChildren([moving |-> EmptyMap, fixed |-> EmptyMap], model_, tree)

\* C11: when onURDFSwap runs on an initialized publisher and getUrdfPtr()
\* gives null, no step taken from the start of the call to its return
\* changes the mimic map and setJointMimicMap is never entered; at the
\* return both tables are the ones built anew from the tree at hand, the
\* last step before it has set urdf_changed_, and the call can return.
UnavailableKeepsMimic ==
  /\ [](\A w \in Writers :
          Unavailable(w) =>
            /\ pc[w] \notin {"mm_lock", "mm_clear", "mm_loop"}
            /\ pc[w] = "sw_leave" =>
                 /\ loc[w].op = "swapped"
                 /\ Tables = FreshTables
                 /\ ENABLED onURDFSwap_Leave(w))
  /\ [][(\E w \in Writers :
           pc[w] \in {"sw_check", "sw_base"} \/ Unavailable(w))
        => mimic_' = mimic_]_vars
  /\ [][\A w \in Writers :
          (Unavailable(w) /\ pc'[w] = "sw_leave" /\ pc[w] # "sw_leave") => urdf_changed_']_vars

\* C11 witness: a swap whose description could not be retrieved is about to
\* return, with the tables rebuilt and the mimic map still the one an
\* earlier swap to another description built.
UnavailableSwapDone ==
  \E w \in Writers :
    /\ Unavailable(w)
    /\ pc[w] = "sw_leave"
    /\ mimic_ # EmptyMap
    /\ mimic_ # setJointMimicMap(model_)
    /\ segments_ # EmptyMap
    /\ segments_fixed_ # EmptyMap


\* --------------------------------------------------------- failed init
\* No call of thread p has computed or sent a transform.
EmitsNoTransform(p) ==
  /\ loc[p].tf_transforms = <<>>
  /\ \A i \in 1..Len(loc[p].sent) : loc[p].sent[i].batch = <<>>

\* C12 as stated: once init has returned false, the moving table, the fixed
\* table and the mimic map are all empty and no publish call emits a
\* transform.
FailedInitLeavesNothing ==
  init_returned = "false" =>
    /\ segments_ = EmptyMap
    /\ segments_fixed_ = EmptyMap
    /\ mimic_ = EmptyMap
    /\ \A p \in Pubs : EmitsNoTransform(p)

\* C12 as amended: once init has returned false, initialized_ is false, the
\* tree and both tables are empty and no publish call emits a transform;
\* the mimic map is the one the constructor built from the description.
FailedInitKeepsConstructed ==
  init_returned = "false" =>
    /\ ~initialized_
    /\ tree = EmptyTree
    /\ segments_ = EmptyMap
    /\ segments_fixed_ = EmptyMap
    /\ mimic_ = setJointMimicMap(model_)
    /\ \A p \in Pubs : EmitsNoTransform(p)

\* C12 witness: after a failed init the mimic map has an entry, and a
\* publishTransforms call given a joint position has sent its batch while
\* another thread has had a joint position derived for it.
PublishedAfterFailedInit ==
  \E p, q \in Pubs :
    /\ init_returned = "false"
    /\ mimic_ # EmptyMap
    /\ pc[p] = "ret" /\ loc[p].op = "publishTransforms"
    /\ loc[p].joint_positions # EmptyMap
    /\ Len(loc[p].sent) = 1
    /\ pc[q] = "gm_ret" /\ loc[q].joint_positions # loc[q].input


\* ------------------------------------------------------------ frame names
\* The segments of both tables.
AllSegments ==
  {segments_[j] : j \in DOMAIN segments_} \cup {segments_fixed_[j] : j \in DOMAIN segments_fixed_}

\* The transforms thread p has computed or sent.
Published(p) ==
  {loc[p].tf_transforms[i] : i \in 1..Len(loc[p].tf_transforms)}
    \cup UNION {{loc[p].sent[i].batch[k] : k \in 1..Len(loc[p].sent[i].batch)} :
                 i \in 1..Len(loc[p].sent)}

\* `out` is `name` without its one leading '/', or `name` when it has none.
Normalised(name, out) ==
  IF name # <<>> /\ Head(name) = "/" THEN name = <<"/">> \o out ELSE out = name

\* C13: every transform publishTransforms and publishFixedTransforms compute
\* and send carries as parent and child frame id the root and the tip name
\* of its segment with one leading '/' removed when the name starts with
\* '/', and the name itself otherwise.
FrameIdsNormalised ==
  \A p \in Pubs :
    \A tr \in Published(p) :
      \E s \in AllSegments :
        /\ s.segment = tr.transform[1]
        /\ Normalised(s.root, tr.frame_id)
        /\ Normalised(s.tip, tr.child_frame_id)

\* C13 witness: a batch has been sent with a transform whose parent name
\* began with two separators, one of which is left, and whose child name has
\* a separator only further in, which is kept.
SentDoubleSlashFrame ==
  \E p \in Pubs :
    /\ pc[p] = "ret"
    /\ \E tr \in Published(p), s \in AllSegments :
         /\ s.segment = tr.transform[1]
         /\ Len(s.root) > 1 /\ s.root[1] = "/" /\ s.root[2] = "/"
         /\ tr.frame_id[1] = "/"
         /\ Len(s.tip) > 1 /\ s.tip[1] # "/" /\ s.tip[2] = "/"
         /\ tr.child_frame_id = s.tip


\* C14 as stated, at the return of a skipped republish: when the first
\* setRobotDescriptionIfChanged call issued after an onURDFSwap has
\* completed (no further one begun) is skipped through lock contention, it
\* has sent nothing, so urdf_changed_ is still set for the next call.
SkippedRepublishKeepsFlag ==
  \A p \in Pubs :
    (/\ loc[p].op = "setRobotDescriptionIfChanged"
     /\ loc[p].expect = "all"
     /\ pc[p] = "skipped") => urdf_changed_


\* ------------------------------------------------------ mimic-map access
\* Thread p is inside getJointMimicPositions, past a successful try-lock.
Expanding(p) == pc[p] \in {"gm_loop", "gm_ret"}

\* A writer is between mimic_.clear() and the end of setJointMimicMap's loop.
RebuildingMimic(w) == pc[w] \in {"mm_clear", "mm_loop"}

\* The batch jp after the loop of getJointMimicPositions has handled the
\* first n entries of the map `mimic`.
RECURSIVE ExpandedBy(_, _, _)
ExpandedBy(jp, mimic, n) ==
  LET keys == Take(SortedKeys(DOMAIN mimic), n)
  IN IF Len(keys) = 0 THEN jp
     ELSE MimicPosition(ExpandedBy(jp, mimic, Len(keys) - 1), mimic, keys[Len(keys)])

\* C15: no torn expand. While a getJointMimicPositions call holds its shared
\* lock no writer holds the mimic-map lock or is clearing or refilling the
\* map, the map is the complete map of one description, and what the call
\* has added to the batch so far is computed from that map alone.
NoTornExpand ==
  \A p \in Pubs :
    Expanding(p) =>
      /\ p \in mimic_mtx_.readers
      /\ mimic_mtx_.writer = NoThread
      /\ \A w \in Writers : ~RebuildingMimic(w)
      /\ mimic_ \in {setJointMimicMap(d) : d \in Descs}
      /\ loc[p].joint_positions =
           ExpandedBy(loc[p].input, mimic_,
                      IF pc[p] = "gm_ret" THEN Len(JointOrder) ELSE loc[p].idx - 1)

\* C15 witness: an expand has derived a position from the map a finished
\* swap built, while the writer of the next swap waits for the expand to
\* release the mimic-map lock.
ExpandedWhileWriterWaits ==
  \E p \in Pubs, w \in Writers :
    /\ pc[p] = "gm_ret"
    /\ loc[p].joint_positions # loc[p].input
    /\ mimic_ # setJointMimicMap(model_)
    /\ pc[w] = "mm_lock"
    /\ urdf_ptr # <<>> /\ setJointMimicMap(urdf_ptr[1]) # mimic_


\* C16: a getJointMimicPositions call whose shared try-lock found the
\* mimic-map lock held or awaited by a writer takes the return false
\* branch: it does not hold the lock, its loop never runs, and the batch is
\* the one supplied.
ExpandSkippedLeavesBatch ==
  \A p \in Pubs :
    (loc[p].op = "getJointMimicPositions" /\ loc[p].blocker # NoThread) =>
      /\ pc[p] = "skipped"
      /\ p \notin mimic_mtx_.readers
      /\ loc[p].attempts = 1
      /\ loc[p].joint_positions = loc[p].input

\* C16 witness: an expand has given up while the writer was refilling the
\* map, which already has an entry that would have added a position.
ExpandSkippedWhileRefilling ==
  \E p \in Pubs, w \in Writers :
    /\ pc[p] = "skipped"
    /\ loc[p].op = "getJointMimicPositions"
    /\ loc[p].blocker = w
    /\ pc[w] = "mm_loop"
    /\ \E k \in DOMAIN mimic_ :
         /\ mimic_[k].joint_name \in DOMAIN loc[p].input
         /\ k \notin DOMAIN loc[p].input


\* ------------------------------------------------------ publishTransforms
\* C17: a publishTransforms call that got the structure lock has sent
\* nothing before its loop ends and then exactly one batch, to the dynamic
\* sink; the batch has one transform for each supplied joint that is a key
\* of the moving table, made of that joint's segment and supplied angle and
\* stamped with the supplied time, and as many transforms as there are such
\* joints: a supplied joint without a moving segment adds nothing and the
\* joints after it are still handled.
PublishMovingExact ==
  \A p \in Pubs :
    loc[p].op = "publishTransforms" =>
      /\ pc[p] = "pt_loop" => loc[p].sent = <<>>
      /\ pc[p] = "ret" =>
           /\ Len(loc[p].sent) = 1
           /\ loc[p].sent[1].sink = "dynamic"
           /\ LET batch == loc[p].sent[1].batch
                  jp == loc[p].joint_positions
                  known == DOMAIN jp \cap DOMAIN segments_
              IN /\ Len(batch) = Cardinality(known)
                 /\ \A j \in known :
                      \E i \in 1..Len(batch) :
                        /\ batch[i].transform = <<segments_[j].segment, jp[j]>>
                        /\ batch[i].stamp = "time"
                        /\ batch[i].frame_id = stripSlash(segments_[j].root)
                        /\ batch[i].child_frame_id = stripSlash(segments_[j].tip)

\* C17 witness: a batch of three joints at different angles has been sent as
\* two transforms: the middle joint has a segment in the fixed table only.
PublishedAroundFixedJoint ==
  \E p \in Pubs :
    /\ pc[p] = "ret"
    /\ loc[p].op = "publishTransforms"
    /\ DOMAIN loc[p].joint_positions = {"a", "b", "c"}
    /\ loc[p].joint_positions["a"] # loc[p].joint_positions["c"]
    /\ "b" \in DOMAIN segments_fixed_ \ DOMAIN segments_
    /\ Len(loc[p].sent) = 1
    /\ Len(loc[p].sent[1].batch) = 2


\* ------------------------------------------------------- flag set last
\* Thread p is inside the publishFixedTransforms(true) of a
\* setRobotDescriptionIfChanged call that saw the flag set, holding the lock.
Republishing(p) ==
  loc[p].op = "setRobotDescriptionIfChanged" /\ pc[p] \in {"pf_loop", "ret"}

\* C18: urdf_changed_ is set by the last step of onURDFSwap only: when the
\* writer is about to set it both tables are built anew from the tree, the
\* mimic map is rebuilt from the description retrieved and its lock released,
\* and the flag never rises at another step; and while a
\* setRobotDescriptionIfChanged call that saw the flag republishes, no
\* writer is inside its rebuild and the fixed table it reads and sends
\* to the static sink is the complete table built from the tree.
FlagSetLast ==
  /\ [](/\ \A w \in Writers :
            pc[w] = "sw_changed" =>
              /\ Tables = FreshTables
              /\ urdf_ptr # <<>> => mimic_ = setJointMimicMap(urdf_ptr[1])
              /\ mimic_mtx_.writer # w
        /\ \A p \in Pubs :
            Republishing(p) =>
              /\ \A w \in Writers : pc[w] = "idle"
              /\ segments_fixed_ = FreshTables.fixed
              /\ loc[p].tf_transforms =
                   FixedBatch(FreshTables.fixed,
                              IF pc[p] = "ret" THEN Len(JointOrder) ELSE loc[p].idx - 1,
                              "now")
              /\ pc[p] = "ret" =>
                   loc[p].sent = <<[sink |-> "static", batch |-> loc[p].tf_transforms]>>)
  /\ [][(urdf_changed_' /\ ~urdf_changed_) =>
          \E w \in Writers : pc[w] = "sw_changed" /\ pc'[w] = "sw_leave"]_vars

\* C18 witness: a republish has sent the fixed table of another description
\* than the constructor's, and the flag is set again: a further onURDFSwap
\* ran between the call clearing the flag and its taking the lock.
RepublishedAfterFurtherSwap ==
  \E p \in Pubs :
    /\ Republishing(p)
    /\ pc[p] = "ret"
    /\ loc[p].sent[1].batch # <<>>
    /\ active # model_
    /\ urdf_changed_


\* ------------------------------------------------- the hot swap finishes
\* The one wait made while a lock is held is the writer's, for the mimic-map
\* lock with the structure lock held: then every holder of the mimic-map
\* lock is a thread inside getJointMimicPositions that holds no structure
\* lock and can take its next step.
NoCyclicWait ==
  \A w \in Writers :
    pc[w] = "mm_lock" =>
      /\ m_swapMutex = w
      /\ mimic_mtx_.writer = NoThread
      /\ \A p \in mimic_mtx_.readers :
           /\ p \in Pubs
           /\ Expanding(p)
           /\ m_swapMutex # p
           /\ ENABLED CallStep(p)

\* An onURDFSwap on an initialized publisher returns only through the
\* step that sets urdf_changed_.
ReturnsWithFlagSet ==
  /\ \A w \in Writers : (pc[w] = "sw_leave" /\ initialized_) => loc[w].op = "swapped"
  /\ \A w \in Writers : (pc'[w] = "sw_leave" /\ pc[w] = "sw_changed") => urdf_changed_'

SwapBeforeInitChangesNothing ==
  /\ [](~initialized_ =>
          /\ init_returned \in {"none", "false"}
          /\ \A w \in Writers : pc[w] \in {"idle", "sw_check", "sw_leave"}
          /\ segments_ = EmptyMap
          /\ segments_fixed_ = EmptyMap
          /\ mimic_ = setJointMimicMap(model_)
          /\ ~urdf_changed_
          /\ \A p \in Pubs :
               loc[p].op = "setRobotDescriptionIfChanged" =>
                 pc[p] = "noop" /\ loc[p].sent = <<>>)
  /\ [][~initialized_' => UNCHANGED <<segments_, segments_fixed_, mimic_, urdf_changed_>>]_vars

\* C20 witness: after init has returned false, on a publisher whose mimic
\* map has an entry, an onURDFSwap is returning from its first line and a
\* setRobotDescriptionIfChanged call has found nothing to do.
SwapReturnedBeforeInit ==
  \E w \in Writers, p \in Pubs :
    /\ ~initialized_
    /\ init_returned = "false"
    /\ pc[w] = "sw_leave"
    /\ mimic_ # EmptyMap
    /\ loc[p].op = "setRobotDescriptionIfChanged"
    /\ pc[p] = "noop"

====
